---- MODULE Spec2Model ----
(***************************************************************************)
(* TensorsLab image and video generation clients                           *)
(*   src/skills/tl-image/scripts/tensorslab_image.py                       *)
(*   src/skills/tl-video/scripts/tensorslab_video.py                       *)
(*                                                                         *)
(* One run of main(): validate (video), generate_image / generate_video    *)
(* (one Submit), wait_and_download (polling loop, then one download per    *)
(* result URL).  The remote API, the file system and the clock are the     *)
(* environment: every response the code distinguishes is drawn with \E.    *)
(*                                                                         *)
(* Strings whose characters the code inspects (task ids, file names, URL   *)
(* paths, extensions) are sequences of one-character strings.              *)
(* Time is counted in whole seconds; the clock never runs backwards.       *)
(* Domain of the model: --poll-interval is positive (time.sleep raises on  *)
(* a negative value); the status endpoint's "data" member is a JSON        *)
(* object when it is there; result URLs are strings urlparse accepts.      *)
(***************************************************************************)
EXTENDS Integers, Sequences, FiniteSets, TLC

VARIABLES
    kind,             \* "image" | "video": which script runs
    args,             \* the parsed command line (argparse namespace)
    env_key,          \* TENSORSLAB_API_KEY is set in the environment
    pc,               \* position of the process
    clock,            \* time.time(), in seconds
    start_time,       \* wait_and_download: start_time
    task_id,          \* main: task_id
    task_data,        \* wait_and_download: task_data (last query result)
    urls,             \* wait_and_download: urls of the Completed snapshot
    i,                \* wait_and_download: index of the download loop
    downloaded_files, \* wait_and_download: downloaded_files
    opened_files,     \* generate_*: handles opened and not yet closed
    disk,             \* files in the output directory: path -> "complete" | "partial"
    outcome,          \* how the run ended ("none" while running)
    error_msg,        \* message logged with the TaskFailed outcome
    files,            \* generate_*: the multipart fields of the request
    submit_response,  \* history: what the Submit call did
    response,         \* history: what the last status query call did
    query_start,      \* history: elapsed time when the last status query started
    completed_at,     \* history: <<start, end>> of the first query that reported 3
    terminal_seen,    \* history: some query reported 3 or 4
    n_submit,         \* history: number of Submit requests
    n_query,          \* history: number of status queries
    n_sleep,          \* history: number of sleeps
    attempts,         \* history: the download attempts, in order
    queried,          \* history: the task ids sent in the status queries
    last_heartbeat,   \* wait_and_download (video): last_heartbeat
    beats             \* history: the heartbeat messages logged, in order

hist == <<submit_response, response, query_start, completed_at, terminal_seen,
          n_submit, n_query, n_sleep, attempts, queried, beats>>

vars == <<kind, args, env_key, pc, clock, start_time, task_id, task_data, urls, i,
          downloaded_files, opened_files, disk, outcome, error_msg, files,
          last_heartbeat, hist>>

----------------------------------------------------------------------------
(* Bounds of the model *)

MaxTimeout == 3      \* largest --timeout drawn
MaxQueryTime == 1    \* longest a status query takes, in seconds
MaxUrls == 2         \* longest result URL list of a Completed snapshot
MaxSources == 3      \* most --source options drawn

----------------------------------------------------------------------------
(* Python values *)

None == <<"None">>               \* str(None); also the value None of a string

Digits == <<"0", "1", "2", "3", "4", "5", "6", "7", "8", "9">>

\* str(n) for the indices the download loop formats
Str(n) == <<Digits[n + 1]>>

\* s.rfind(c), 1-based; 0 when c does not occur
RFind(s, c) ==
    LET hits == {k \in 1..Len(s) : s[k] = c}
    IN  IF hits = {} THEN 0 ELSE CHOOSE k \in hits : \A h \in hits : h <= k

\* PurePath.name: the last component of a path
PathName(p) ==
    LET ends == {k \in 1..Len(p) : p[k] # "/"}
        last == IF ends = {} THEN 0 ELSE CHOOSE k \in ends : \A h \in ends : h <= k
        q    == SubSeq(p, 1, last)
        cut  == RFind(q, "/")
    IN  SubSeq(q, cut + 1, Len(q))

\* PurePath.suffix (Python 3.11): name[i:] where i = name.rfind('.'),
\* if 0 < i < len(name) - 1 (0-based), else ''
PathSuffix(p) ==
    LET name == PathName(p)
        j    == RFind(name, ".")
    IN  IF 1 < j /\ j < Len(name) THEN SubSeq(name, j, Len(name)) ELSE <<>>

\* PurePath.with_suffix(ext) on a path of one component
WithSuffix(name, ext) ==
    LET old == PathSuffix(name)
    IN  IF old = <<>> THEN name \o ext
        ELSE SubSeq(name, 1, Len(name) - Len(old)) \o ext

----------------------------------------------------------------------------
(* Constants of the scripts *)

SUCCESS == 1000                  \* RESPONSE_CODES: "Success"
INSUFFICIENT_CREDITS == 9000     \* RESPONSE_CODES: "Insufficient Credits"
ERROR == 9999                    \* RESPONSE_CODES: "Error"

COMPLETED == 3                   \* wait_and_download: if status == 3
FAILED == 4                      \* wait_and_download: elif status == 4
PROCESSING == 2                  \* wait_and_download (video): if status == 2
HEARTBEAT_PERIOD == 60           \* wait_and_download (video): elapsed - last_heartbeat >= 60

MIN_DURATION == 5                \* main (video): args.duration < 5
MAX_DURATION == 10               \* main (video): max_duration, other models
MAX_DURATION_V2 == 15            \* main (video): max_duration, seedancev2
MAX_SOURCE_IMAGES == 2           \* main (video): len(args.sources) > 2

NoStatus == 0 - 1                \* dict.get of an absent status key: None

\* IMAGE_STATUS
IMAGE_STATUS == [c \in {1, 2, 3, 4} |->
    CASE c = 1 -> "Queued" [] c = 2 -> "Processing" [] c = 3 -> "Completed" [] c = 4 -> "Failed"]

\* TASK_STATUS (video)
TASK_STATUS == [c \in {1, 2, 3, 4, 5} |->
    CASE c = 1 -> "Pending" [] c = 2 -> "Processing" [] c = 3 -> "Completed"
      [] c = 4 -> "Failed" [] c = 5 -> "Uploading"]

StatusTable(k) == IF k = "image" THEN IMAGE_STATUS ELSE TASK_STATUS

\* IMAGE_STATUS.get(status, "Unknown") / TASK_STATUS.get(status, "Unknown")
status_text(k, status) ==
    IF status \in DOMAIN StatusTable(k) THEN StatusTable(k)[status] ELSE "Unknown"

----------------------------------------------------------------------------
(* JSON objects of the status endpoint.  A dict is a record: keys is the set
   of members present; status stands for "image_status" / "task_status",
   msg for "error_message" / "message", url for "url". *)

NoneData == [none |-> TRUE, keys |-> {}, status |-> NoStatus, url |-> <<>>, msg |-> <<>>]

Dict(ks, st, us, m) == [none |-> FALSE, keys |-> ks, status |-> st, url |-> us, msg |-> m]

EmptyDict == Dict({}, NoStatus, <<>>, <<>>)

\* bool(d) of None or of a dict
Truthy(d) == ~d.none /\ d.keys # {}

\* d.get(k, default)
Get(d, k, default) == IF k \in d.keys THEN d[k] ELSE default

UnknownError == <<"Unknown error">>      \* the default of .get("error_message", ...)

----------------------------------------------------------------------------
(* Inputs: what the command line and the environment may be *)

MaxStatus == 6       \* raw status codes 0..MaxStatus are drawn

StatusCodes == 0..MaxStatus

Messages == {<<"quota">>, <<"nsfw">>}

\* result URLs: scheme and host do not matter to the code, the path does
Urls == {[host |-> "x", path |-> <<"/", "a", ".", "p", "n", "g">>],
         [host |-> "x", path |-> <<"/", "v">>]}

\* urlparse(url).path
UrlPath(url) == url.path

UrlLists == UNION {[1..n -> Urls] : n \in 0..MaxUrls}

TaskIds == {<<"a", "b", "c">>, <<"a", ".", "b">>}

SourcePaths == << <<"d", "/", "s", ".", "p", "n", "g">>, <<"t">>, <<"u">>, <<"w">>, <<"x">> >>

SourceLists == {SubSeq(SourcePaths, 1, n) : n \in 0..MaxSources}

ImageUrls == {None, <<"h">>}

ApiKeys == {None, <<"k">>}

PollIntervals == {1, 2}

Timeouts == (0 - 1)..MaxTimeout

Durations == {4, 5, 10, 11, 15, 16}

VideoModels == {"seedancev1profast", "seedancev2"}

\* os.path.basename(path)
basename(path) == SubSeq(path, RFind(path, "/") + 1, Len(path))

\* bodies the status endpoint may send as "data"
Snapshots ==
    {EmptyDict}
    \cup {Dict({"status"}, st, <<>>, <<>>) : st \in StatusCodes}
    \cup {Dict({"status", "url"}, COMPLETED, us, <<>>) : us \in UrlLists}
    \cup {Dict({"status", "msg"}, FAILED, <<>>, m) : m \in Messages}
    \cup {Dict({"msg"}, NoStatus, <<>>, m) : m \in Messages}

\* what the status endpoint call may do: raise (transport error, timeout,
\* body that is not JSON), or answer {code, data?}
QueryResponses ==
    {[raises |-> TRUE, code |-> 0, hasData |-> FALSE, data |-> EmptyDict]}
    \cup {[raises |-> FALSE, code |-> c, hasData |-> FALSE, data |-> EmptyDict] :
            c \in {SUCCESS, ERROR}}
    \cup {[raises |-> FALSE, code |-> ERROR, hasData |-> TRUE, data |-> d] :
            d \in {Dict({"status"}, COMPLETED, <<>>, <<>>)}}
    \cup {[raises |-> FALSE, code |-> SUCCESS, hasData |-> TRUE, data |-> d] :
            d \in Snapshots}

NoResponse == [raises |-> FALSE, code |-> 0, hasData |-> FALSE, data |-> EmptyDict]

NoSubmit == [raises |-> "no", code |-> 0, hasId |-> FALSE, taskid |-> None]

\* what the submit endpoint call may do: requests.post raises a
\* RequestException ("transport"), the body is not JSON or its data is not
\* an object ("badbody"), or it answers {code, data: {taskid}?}
SubmitResponses ==
    {[raises |-> r, code |-> 0, hasId |-> FALSE, taskid |-> None] :
            r \in {"transport", "badbody"}}
    \cup {[raises |-> "no", code |-> c, hasId |-> FALSE, taskid |-> None] :
            c \in {SUCCESS, INSUFFICIENT_CREDITS, ERROR}}
    \cup {[raises |-> "no", code |-> c, hasId |-> TRUE, taskid |-> t] :
            c \in {SUCCESS, ERROR}, t \in TaskIds}

ImageArgs ==
    [model : {"seedreamv4"}, duration : {0}, sources : SourceLists, image_url : ImageUrls,
     api_key : ApiKeys, poll_interval : PollIntervals, timeout : Timeouts]

VideoArgs ==
    [model : VideoModels, duration : Durations, sources : SourceLists, image_url : ImageUrls,
     api_key : ApiKeys, poll_interval : PollIntervals, timeout : Timeouts]

\* the request options and the polling options of a command line
RequestOf(a) == <<a.model, a.duration, a.sources, a.image_url, a.api_key>>
PollingOf(a) == <<a.poll_interval, a.timeout>>

\* the command lines drawn: every request with one polling setting, and
\* every polling setting with one request (the code never combines the two:
\* generate_* reads the request options, wait_and_download the polling ones)
Runs(k) ==
    LET all == IF k = "image" THEN ImageArgs ELSE VideoArgs
    IN  {a \in all : \/ PollingOf(a) = <<1, 1>>
                     \/ RequestOf(a) = <<IF k = "image" THEN "seedreamv4" ELSE "seedancev2",
                                         IF k = "image" THEN 0 ELSE 5,
                                         <<>>, None, <<"k">> >>}

----------------------------------------------------------------------------
(* History variables record what the environment did, in the terms of the
   collaborator contracts; the code never reads them *)

\* a status query answered with a usable snapshot of raw status `code`
Reports(resp, code) ==
    /\ ~resp.raises
    /\ resp.code = SUCCESS
    /\ resp.hasData
    /\ "status" \in resp.data.keys
    /\ resp.data.status = code

\* a status query that failed in transport, answered a non-success response
\* code, or carried no usable data
IsTransient(resp) ==
    \/ resp.raises
    \/ resp.code # SUCCESS
    \/ ~resp.hasData
    \/ resp.data.keys = {}

\* one download attempt: result index, how it ended, the Content-Type header
\* of the response, the extension the code chose for the local file
Attempt(n, res, header, ext) == [idx |-> n, res |-> res, header |-> header, ext |-> ext]

\* variant: the error is logged and the function returns
Exit_ReturnsNormally(why) == /\ pc' = "done"
                             /\ outcome' = why

\* logger.error(...); sys.exit(1) -- or the traceback of an uncaught exception
Exit(why) == /\ pc' = "exit"
             /\ outcome' = why

----------------------------------------------------------------------------
Init ==
    /\ kind \in {"image", "video"}
    /\ args \in Runs(kind)
    /\ env_key \in BOOLEAN
    /\ pc = "main"
    /\ clock = 0
    /\ start_time = 0
    /\ task_id = None
    /\ task_data = NoneData
    /\ urls = <<>>
    /\ i = 0
    /\ downloaded_files = <<>>
    /\ opened_files = <<>>
    /\ disk = {}
    /\ outcome = "none"
    /\ error_msg = <<>>
    /\ files = <<>>
    /\ submit_response = NoSubmit
    /\ response = NoResponse
    /\ query_start = 0
    /\ completed_at = <<>>
    /\ terminal_seen = FALSE
    /\ n_submit = 0
    /\ n_query = 0
    /\ n_sleep = 0
    /\ attempts = <<>>
    /\ queried = {}
    /\ last_heartbeat = 0
    /\ beats = <<>>

----------------------------------------------------------------------------
(* main, up to the call of generate_image / generate_video *)

\* variant: the seedancev2 cap applied to every model
max_duration_Always15(model) == MAX_DURATION_V2

\* main (video): max_duration = 15 if args.model == "seedancev2" else 10
max_duration(model) == IF model = "seedancev2" THEN MAX_DURATION_V2 ELSE MAX_DURATION

\* main (video): the duration check
DurationRejected(a) == a.duration < MIN_DURATION \/ a.duration > max_duration(a.model)

\* main (video): the source image count check
SourcesRejected(a) == a.sources # <<>> /\ Len(a.sources) > MAX_SOURCE_IMAGES

\* main: the validation that precedes the generate call (none in the image script)
Rejected(k, a) == k = "video" /\ (DurationRejected(a) \/ SourcesRejected(a))

Main ==
    /\ pc = "main"
    /\ IF Rejected(kind, args)
       THEN Exit("ValidationError")
       ELSE /\ pc' = "generate"
            /\ UNCHANGED outcome
    /\ UNCHANGED <<kind, args, env_key, clock, start_time, task_id, task_data, urls, i,
                   downloaded_files, opened_files, disk, error_msg, files, last_heartbeat, hist>>

----------------------------------------------------------------------------
(* generate_image / generate_video *)

\* the multipart field list: a text field or a file part
Field(name, value) == [name |-> name, value |-> value]

\* source_images[:2] in generate_video, source_images in generate_image
SourcesUsed(k, sources) ==
    IF k = "video" THEN SubSeq(sources, 1, IF Len(sources) < 2 THEN Len(sources) ELSE 2)
    ELSE sources

\* files.append(("sourceImage", (os.path.basename(img_path), f))) for each source
SourceParts(srcs) == [k \in 1..Len(srcs) |-> Field("sourceImage", basename(srcs[k]))]

\* variant: "if image_url" in place of "elif image_url"
BuildFiles_BothParts(k, a) ==
    <<Field("prompt", <<"p">>)>> \o
    (IF a.sources # <<>> THEN SourceParts(SourcesUsed(k, a.sources)) ELSE <<>>) \o
    (IF a.image_url # None /\ a.image_url # <<>>
     THEN <<Field("imageUrl", a.image_url)>> ELSE <<>>)

\* the fields of the request: prompt, then the image-to-X part
\*   if source_images: ... elif image_url: ...
BuildFiles(k, a) ==
    <<Field("prompt", <<"p">>)>> \o
    (IF a.sources # <<>> THEN SourceParts(SourcesUsed(k, a.sources))
     ELSE IF a.image_url # None /\ a.image_url # <<>>
          THEN <<Field("imageUrl", a.image_url)>>
          ELSE <<>>)

\* get_api_key() exits when neither --api-key nor the environment has a key
KeyMissing == args.api_key = None /\ ~env_key

\* the body before the try: key lookup, field list, open() of every source.
\* open() of source number `bad` raises (bad = 0: none does); the exception
\* is not caught and the handles opened before it stay open.
Generate ==
    /\ pc = "generate"
    /\ IF KeyMissing
       THEN /\ Exit("ConfigurationError")
            /\ UNCHANGED <<opened_files, files>>
       ELSE LET srcs == SourcesUsed(kind, args.sources) IN
            \E bad \in 0..Len(srcs) :
               IF bad = 0
               THEN /\ opened_files' = srcs
                    /\ files' = BuildFiles(kind, args)
                    /\ pc' = "submit"
                    /\ UNCHANGED outcome
               ELSE /\ opened_files' = SubSeq(srcs, 1, bad - 1)
                    /\ Exit("Crash")
                    /\ UNCHANGED files
    /\ UNCHANGED <<kind, args, env_key, clock, start_time, task_id, task_data, urls, i,
                   downloaded_files, disk, error_msg, last_heartbeat, hist>>

\* variant: any JSON answer taken as success
SubmitSucceeded_AnyJson(resp) == resp.raises = "no"

\* result.get("code") == 1000
SubmitSucceeded(resp) == resp.raises = "no" /\ resp.code = SUCCESS

\* requests.post and the handling of its response.  The handles are closed
\* after post returns; a RequestException skips the close.
Submit ==
    /\ pc = "submit"
    /\ \E resp \in SubmitResponses :
          /\ n_submit' = n_submit + 1
          /\ submit_response' = resp
          /\ opened_files' = IF resp.raises = "transport" THEN opened_files ELSE <<>>
          /\ IF SubmitSucceeded(resp)
             THEN /\ task_id' = IF resp.hasId THEN resp.taskid ELSE None
                  /\ pc' = "wait"
                  /\ UNCHANGED outcome
             ELSE /\ Exit("SubmissionError")
                  /\ UNCHANGED task_id
    /\ UNCHANGED <<kind, args, env_key, clock, start_time, task_data, urls, i,
                   downloaded_files, disk, error_msg, files, response, query_start,
                   completed_at, terminal_seen, n_query, n_sleep, attempts, queried,
                   last_heartbeat, beats>>

----------------------------------------------------------------------------
(* query_task_status *)

\* variant: the response code is not looked at
query_task_status_IgnoresCode(resp) ==
    IF resp.raises THEN NoneData
    ELSE IF resp.hasData THEN resp.data ELSE EmptyDict

\* None on an exception or a code other than 1000, else result.get("data", {})
query_task_status(resp) ==
    IF resp.raises THEN NoneData
    ELSE IF resp.code = SUCCESS
         THEN (IF resp.hasData THEN resp.data ELSE EmptyDict)
         ELSE NoneData

----------------------------------------------------------------------------
(* download_image / download_video and the file names *)

IMAGE_EXT_MAX == 6               \* download_image: len(ext) > 6
VIDEO_EXT_MAX == 5               \* wait_and_download (video): len(ext) > 5

PNG == <<".", "p", "n", "g">>
JPG == <<".", "j", "p", "g">>
JPE == <<".", "j", "p", "e">>
MP4 == <<".", "m", "p", "4">>

\* Content-Type headers of the artifact responses: media type and parameter;
\* NoHeader: the response has none (or there is no response)
NoHeader == [media |-> "", param |-> ""]

ContentTypeHeaders ==
    {NoHeader,
     [media |-> "image/png", param |-> ""],
     [media |-> "image/jpeg", param |-> "charset=binary"]}

\* response.headers.get('content-type', '').split(';')[0].strip()
content_type(header) == header.media

\* mimetypes.guess_extension (Python 3.11 table); <<>> stands for None
guess_extension(media) ==
    CASE media = "image/png"  -> PNG
      [] media = "image/jpeg" -> JPG
      [] media = "text/html"  -> <<".", "h", "t", "m", "l">>
      [] media = "video/webm" -> <<".", "w", "e", "b", "m">>
      [] media = "application/manifest+json" ->
            <<".", "w", "e", "b", "m", "a", "n", "i", "f", "e", "s", "t">>
      [] OTHER                -> <<>>

\* variant: the length of the extension is not checked
ImageExt_NoLengthCheck(header, url) ==
    LET guessed == guess_extension(content_type(header))
        ext1    == IF guessed = JPE THEN JPG ELSE guessed
        ext2    == IF ext1 = <<>> THEN PathSuffix(UrlPath(url)) ELSE ext1
    IN  IF ext2 = <<>> THEN PNG ELSE ext2

\* download_image: the extension of final_path
ImageExt(header, url) ==
    LET guessed == guess_extension(content_type(header))
        ext1    == IF guessed = JPE THEN JPG ELSE guessed
        ext2    == IF ext1 = <<>> THEN PathSuffix(UrlPath(url)) ELSE ext1
    IN  IF ext2 = <<>> \/ Len(ext2) > IMAGE_EXT_MAX THEN PNG ELSE ext2

\* wait_and_download (video): ext
VideoExt(url) ==
    LET ext == PathSuffix(UrlPath(url))
    IN  IF ext = <<>> \/ Len(ext) > VIDEO_EXT_MAX THEN MP4 ELSE ext

\* the extension of the local file of a result
Extension(k, header, url) == IF k = "image" THEN ImageExt(header, url) ELSE VideoExt(url)

\* f"{task_id}_{i}"
Filename(tid, n) == tid \o <<"_">> \o Str(n)

\* the local path of result n, relative to the output directory:
\* output_path.with_suffix(ext) (image), f"{task_id}_{i}{ext}" (video)
LocalPath(k, tid, n, header, url) ==
    IF k = "image" THEN WithSuffix(Filename(tid, n), ImageExt(header, url))
    ELSE Filename(tid, n) \o VideoExt(url)

\* how a download may end: the file written whole; the request failing
\* before the file is opened; the write failing after it was opened
DownloadResults == {"ok", "fetch_failed", "write_failed"}

\* open(path, 'wb') and the writes that follow
WriteFile(d, path, state) == {f \in d : f.path # path} \cup {[path |-> path, state |-> state]}

----------------------------------------------------------------------------
(* wait_and_download *)

Elapsed == clock - start_time

\* the prologue: downloaded_files = [], start_time = time.time()
StartWait ==
    /\ pc = "wait"
    /\ downloaded_files' = <<>>
    /\ start_time' = clock
    /\ last_heartbeat' = 0
    /\ pc' = "loop"
    /\ UNCHANGED <<kind, args, env_key, clock, task_id, task_data, urls, i, opened_files,
                   disk, outcome, error_msg, files, hist>>

\* variant: "<=" in the loop test
LoopCond_Inclusive(now, start, timeout) == now - start <= timeout

\* variant: the loop gives up one second early
LoopCond_Early(now, start, timeout) == now - start < timeout - 1

\* while time.time() - start_time < timeout
LoopCond(now, start, timeout) == now - start < timeout

\* the loop test; when it fails: "Timeout waiting for task completion", sys.exit(1)
LoopCheck ==
    /\ pc = "loop"
    /\ IF LoopCond(clock, start_time, args.timeout)
       THEN /\ pc' = "query"
            /\ UNCHANGED outcome
       ELSE Exit("Timeout")
    /\ UNCHANGED <<kind, args, env_key, clock, start_time, task_id, task_data, urls, i,
                   downloaded_files, opened_files, disk, error_msg, files, last_heartbeat, hist>>

\* variant: every status other than 1, 2, 3, 5 ends the run as a failure
Dispatch_UnknownIsFailure(td) ==
    IF ~Truthy(td) THEN "transient"
    ELSE LET status == Get(td, "status", NoStatus) IN
         IF status = COMPLETED THEN "completed"
         ELSE IF status \in {1, 2, 5} THEN "nonterminal"
         ELSE "failed"

\* variant: a Failed snapshot is polled again
Dispatch_FailedRetried(td) ==
    IF ~Truthy(td) THEN "transient"
    ELSE LET status == Get(td, "status", NoStatus) IN
         IF status = COMPLETED THEN "completed" ELSE "nonterminal"

\* variant: a Completed snapshot without result URLs counts as a failure
Dispatch_CompletedNeedsUrls(td) ==
    IF ~Truthy(td) THEN "transient"
    ELSE LET status == Get(td, "status", NoStatus) IN
         IF status = COMPLETED
         THEN (IF Get(td, "url", <<>>) = <<>> THEN "failed" ELSE "completed")
         ELSE IF status = FAILED THEN "failed"
         ELSE "nonterminal"

\* variant: a query without a usable result ends the run
Dispatch_TransientEndsLoop(td) ==
    IF ~Truthy(td) THEN "failed"
    ELSE LET status == Get(td, "status", NoStatus) IN
         IF status = COMPLETED THEN "completed"
         ELSE IF status = FAILED THEN "failed"
         ELSE "nonterminal"

\* variant: a Completed snapshot is polled again
Dispatch_CompletedRetried(td) ==
    IF ~Truthy(td) THEN "transient"
    ELSE LET status == Get(td, "status", NoStatus) IN
         IF status = FAILED THEN "failed" ELSE "nonterminal"

\* the branch taken on a query result:
\*   if not task_data: sleep; if status == 3: ...; elif status == 4: ...; sleep
Dispatch(td) ==
    IF ~Truthy(td) THEN "transient"
    ELSE LET status == Get(td, "status", NoStatus) IN
         IF status = COMPLETED THEN "completed"
         ELSE IF status = FAILED THEN "failed"
         ELSE "nonterminal"

\* variant: "continue" without the sleep after a query without a result
AfterPoll_TransientSkipsSleep(branch) == IF branch = "transient" THEN "loop" ELSE "sleep"

\* where the loop body goes on a result that is not terminal: both the
\* "if not task_data" branch and the end of the body call time.sleep
AfterPoll(branch) == "sleep"

\* variant: the heartbeat is logged whatever the status
Heartbeat_OnAnyStatus(status, elapsed, last) == elapsed - last >= HEARTBEAT_PERIOD

\* wait_and_download (video): the heartbeat message is logged
\*   if elapsed - last_heartbeat >= 60 or status == 3: if status == 2: ...
Heartbeat(status, elapsed, last) ==
    (elapsed - last >= HEARTBEAT_PERIOD \/ status = COMPLETED) /\ status = PROCESSING

\* one loop body up to its sleep, return or exit: the status query takes d
\* seconds, then the branch on its result
Query ==
    /\ pc = "query"
    /\ \E resp \in QueryResponses, d \in 0..MaxQueryTime :
          LET td     == query_task_status(resp)
              branch == Dispatch(td)
          IN  /\ clock' = clock + d
              /\ response' = resp
              /\ task_data' = td
              /\ n_query' = n_query + 1
              /\ queried' = queried \cup {task_id}
              /\ LET status  == Get(td, "status", NoStatus)
                     elapsed == clock' - start_time
                     beat    == /\ kind = "video"
                                /\ Truthy(td)
                                /\ Heartbeat(status, elapsed, last_heartbeat)
                 IN  /\ last_heartbeat' = IF beat THEN elapsed ELSE last_heartbeat
                     /\ beats' = IF beat
                                 THEN Append(beats, [at |-> elapsed, status |-> status,
                                                     prev |-> last_heartbeat])
                                 ELSE beats
              /\ query_start' = Elapsed
              /\ completed_at' = IF completed_at = <<>> /\ Reports(resp, COMPLETED)
                                 THEN <<Elapsed, Elapsed + d>> ELSE completed_at
              /\ terminal_seen' = (terminal_seen \/ Reports(resp, COMPLETED)
                                                 \/ Reports(resp, FAILED))
              /\ CASE branch = "completed" ->
                        /\ urls' = Get(td, "url", <<>>)
                        /\ i' = 0
                        /\ IF urls' = <<>>
                           THEN /\ pc' = "done"
                                /\ outcome' = "success"
                           ELSE /\ pc' = "download"
                                /\ UNCHANGED outcome
                        /\ UNCHANGED error_msg
                   [] branch = "failed" ->
                        /\ error_msg' = Get(td, "msg", UnknownError)
                        /\ Exit("TaskFailed")
                        /\ UNCHANGED <<urls, i>>
                   [] OTHER ->
                        /\ pc' = AfterPoll(branch)
                        /\ UNCHANGED <<urls, i, outcome, error_msg>>
    /\ UNCHANGED <<kind, args, env_key, start_time, task_id, downloaded_files,
                   opened_files, disk, files, submit_response, n_submit, n_sleep, attempts>>

\* time.sleep(poll_interval), then back to the loop test
Sleep ==
    /\ pc = "sleep"
    /\ clock' = clock + args.poll_interval
    /\ n_sleep' = n_sleep + 1
    /\ pc' = "loop"
    /\ UNCHANGED <<kind, args, env_key, start_time, task_id, task_data, urls, i,
                   downloaded_files, opened_files, disk, outcome, error_msg, files,
                   submit_response, response, query_start, completed_at, terminal_seen,
                   n_submit, n_query, attempts, queried, last_heartbeat, beats>>

\* variant: the first failed download ends the loop
AfterDownload_StopOnFailure(res) == IF res = "ok" THEN "download" ELSE "return"

\* the loop over a failed download: for i, url in enumerate(urls) goes on
AfterDownload(res) == "download"

\* variant: the newest path is put first
Collect_Prepend(list, path) == <<path>> \o list

\* downloaded_files.append(str(final_path)) / downloaded_files.append(str(output_path))
Collect(list, path) == Append(list, path)

\* one iteration of for i, url in enumerate(urls); the artifact response
\* carries one of `headers` as its Content-Type
DownloadWith(headers) ==
    /\ pc = "download"
    /\ i < Len(urls)
    /\ \E res \in DownloadResults, header \in headers :
          LET url  == urls[i + 1]
              path == LocalPath(kind, task_id, i, header, url)
          IN  /\ res = "fetch_failed" => header = NoHeader
              /\ attempts' = Append(attempts,
                                    Attempt(i, res, header, Extension(kind, header, url)))
              /\ disk' = CASE res = "ok" -> WriteFile(disk, path, "complete")
                           [] res = "write_failed" -> WriteFile(disk, path, "partial")
                           [] OTHER -> disk
              /\ downloaded_files' = IF res = "ok" THEN Collect(downloaded_files, path)
                                     ELSE downloaded_files
              /\ IF res = "ok" \/ AfterDownload(res) = "download"
                 THEN /\ i' = i + 1
                      /\ UNCHANGED <<pc, outcome>>
                 ELSE /\ pc' = "done"
                      /\ outcome' = "success"
                      /\ UNCHANGED i
    /\ UNCHANGED <<kind, args, env_key, clock, start_time, task_id, task_data, urls,
                   opened_files, error_msg, files, submit_response, response, query_start,
                   completed_at, terminal_seen, n_submit, n_query, n_sleep, queried,
                   last_heartbeat, beats>>

\* the download loop body of a run (download_video never reads the header)
Download == DownloadWith(IF kind = "video" THEN {NoHeader} ELSE ContentTypeHeaders)

\* return downloaded_files, and main's report of the paths
Return ==
    /\ pc = "download"
    /\ i = Len(urls)
    /\ pc' = "done"
    /\ outcome' = "success"
    /\ UNCHANGED <<kind, args, env_key, clock, start_time, task_id, task_data, urls, i,
                   downloaded_files, opened_files, disk, error_msg, files, last_heartbeat, hist>>

----------------------------------------------------------------------------
(* The download loop on its own, over a wider range of result URLs and of
   Content-Type headers than the whole runs draw *)

\* result URLs: suffixes of 6 and 7 characters, a path ending in "/", a
\* trailing dot, a dot file, no suffix
WideUrls ==
    Urls \cup
    {[host |-> "x", path |-> q] :
        q \in {<<"/", "a", ".", "a", "b", "c", "d", "e">>,
               <<"/", "a", ".", "a", "b", "c", "d", "e", "f">>,
               <<"/", "d", ".", "x", "/">>,
               <<"/", "a", ".">>,
               <<"/", ".", "h">>}}

WideUrlLists == {<<u>> : u \in WideUrls} \cup {<<u, v>> : u \in WideUrls, v \in WideUrls}

\* Content-Type headers: media types with an extension of 4, 5 and 12
\* characters, and one that mimetypes does not know
WideHeaders ==
    ContentTypeHeaders \cup
    {[media |-> m, param |-> ""] :
        m \in {"text/html", "video/webm", "application/manifest+json", "image/jpg"}}

\* the state in which wait_and_download enters its download loop: the
\* submission returned task_id, the first status query reported Completed
\* with the result URLs
InitExt ==
    /\ kind \in {"image", "video"}
    /\ args \in {a \in Runs(kind) : PollingOf(a) = <<1, 1>> /\ a.sources = <<>>
                                     /\ a.image_url = None /\ a.api_key # None
                                     /\ ~Rejected(kind, a)}
    /\ env_key = TRUE
    /\ pc = "download"
    /\ clock = 0
    /\ start_time = 0
    /\ task_id \in TaskIds
    /\ urls \in WideUrlLists
    /\ task_data = Dict({"status", "url"}, COMPLETED, urls, <<>>)
    /\ i = 0
    /\ downloaded_files = <<>>
    /\ opened_files = <<>>
    /\ disk = {}
    /\ outcome = "none"
    /\ error_msg = <<>>
    /\ files = BuildFiles(kind, args)
    /\ submit_response = [raises |-> "no", code |-> SUCCESS, hasId |-> TRUE, taskid |-> task_id]
    /\ response = [raises |-> FALSE, code |-> SUCCESS, hasData |-> TRUE, data |-> task_data]
    /\ query_start = 0
    /\ completed_at = <<0, 0>>
    /\ terminal_seen = TRUE
    /\ n_submit = 1
    /\ n_query = 1
    /\ n_sleep = 0
    /\ attempts = <<>>
    /\ queried = {task_id}
    /\ last_heartbeat = 0
    /\ beats = <<>>

\* the download loop body, the artifact response carrying any header
DownloadAny == DownloadWith(WideHeaders)

NextExt ==
    \/ DownloadAny
    \/ Return

SpecExt == InitExt /\ [][NextExt]_vars

----------------------------------------------------------------------------
Next ==
    \/ Main
    \/ Generate
    \/ Submit
    \/ StartWait
    \/ LoopCheck
    \/ Query
    \/ Sleep
    \/ Download
    \/ Return

Spec == Init /\ [][Next]_vars

TypeOK ==
    /\ pc \in {"main", "generate", "submit", "wait", "loop", "query", "sleep", "download",
               "done", "exit"}
    /\ outcome \in {"none", "success", "ValidationError", "ConfigurationError", "Crash",
                    "SubmissionError", "TaskFailed", "Timeout"}

----------------------------------------------------------------------------
(* Properties *)

OnSuccessPath == pc \in {"download", "done"}

\* the status of a query result is not a key of the modality's lookup table
Unlisted(k, td) == Get(td, "status", NoStatus) \notin DOMAIN StatusTable(k)

\* C1: a status query whose raw status code is not in the modality's lookup
\* table (a snapshot without a status field included) neither returns nor
\* ends the process: the loop sleeps poll_interval and goes to the next
\* iteration.
C1_UnlistedStatusIsPolledAgain ==
    [][ /\ (pc = "query" /\ Unlisted(kind, task_data'))
            => (pc' = "sleep" /\ outcome' = "none")
        /\ (pc = "sleep" /\ Unlisted(kind, task_data))
            => (pc' = "loop" /\ clock' = clock + args.poll_interval /\ outcome' = "none")
      ]_vars

C1_Witness ==
    /\ pc = "loop"
    /\ n_sleep > 0
    /\ "status" \in task_data.keys
    /\ task_data.status = 6
    /\ Unlisted(kind, task_data)

\* C2 as stated: the loop ends on the success path if and only if some status
\* query reports raw code 3 while the elapsed time is below the timeout.
C2_CompletedReportBeforeDeadline ==
    OnSuccessPath <=> (completed_at # <<>> /\ completed_at[2] < args.timeout)

\* C2, amended: the loop ends on the success path if and only if some status
\* query reports raw code 3; that query was started while the elapsed time
\* was below the timeout (its answer may arrive at or after the deadline).
C2_CompletedReportOfQueryStartedBeforeDeadline ==
    /\ OnSuccessPath <=> completed_at # <<>>
    /\ completed_at # <<>> => completed_at[1] < args.timeout

C2_Witness ==
    /\ pc = "done"
    /\ outcome = "success"
    /\ completed_at # <<>>
    /\ completed_at[2] >= args.timeout
    /\ n_query > 1

\* C3: the timeout outcome occurs only when the elapsed time has reached the
\* timeout, and no Completed or Failed snapshot was observed before it.
C3_TimeoutNotBeforeDeadline ==
    outcome = "Timeout" => (Elapsed >= args.timeout /\ ~terminal_seen)

C3_Witness ==
    /\ outcome = "Timeout"
    /\ n_query > 1
    /\ args.timeout > 0

\* C4: a status query that fails in transport, answers a non-success code or
\* carries no usable data is followed by a sleep of poll_interval and, while
\* the deadline allows, by the next query; it is not an outcome of the run
\* and start_time stays as it was.
C4_TransientQueryIsRetried ==
    [][ /\ (pc = "query" /\ IsTransient(response'))
            => (pc' = "sleep" /\ outcome' = "none" /\ start_time' = start_time)
        /\ (pc = "sleep" /\ IsTransient(response))
            => /\ pc' = "loop"
               /\ clock' = clock + args.poll_interval
               /\ outcome' = "none"
               /\ start_time' = start_time
        /\ (pc = "loop" /\ IsTransient(response) /\ clock - start_time < args.timeout)
            => (pc' = "query" /\ outcome' = "none" /\ start_time' = start_time)
      ]_vars

C4_Witness ==
    /\ pc = "query"
    /\ n_query > 0
    /\ n_sleep = n_query
    /\ response.raises

\* C5: a status query that reports raw code 4 ends the run with the
\* TaskFailed outcome and the snapshot's error message; no sleep, status
\* query or download follows it.
C5_FailedSnapshotIsFatal ==
    Reports(response, FAILED) =>
        /\ pc = "exit"
        /\ outcome = "TaskFailed"
        /\ error_msg = (IF "msg" \in response.data.keys THEN response.data.msg
                        ELSE UnknownError)
        /\ n_sleep = n_query - 1
        /\ attempts = <<>>

C5_Witness ==
    /\ outcome = "TaskFailed"
    /\ error_msg = <<"quota">>
    /\ n_query > 1

\* C6: when Submit does not succeed (a response code other than 1000, or a
\* transport error), the run fails at once: one Submit, no status query, no
\* download.
C6_SubmitFailureIsFatal ==
    /\ n_submit <= 1
    /\ (n_submit > 0 /\ ~(submit_response.raises = "no" /\ submit_response.code = 1000))
        => /\ pc = "exit"
           /\ outcome = "SubmissionError"
           /\ n_query = 0
           /\ attempts = <<>>

C6_Witness ==
    /\ n_submit = 1
    /\ submit_response.raises = "no"
    /\ submit_response.code = 9000
    /\ pc = "exit"

\* the local paths of the attempts that succeeded, in order
PathsWritten ==
    LET ok == SelectSeq(attempts, LAMBDA a : a.res = "ok")
    IN  [k \in 1..Len(ok) |->
            LocalPath(kind, task_id, ok[k].idx, ok[k].header, urls[ok[k].idx + 1])]

\* C7: with n result URLs, a download is attempted for every index 0..n-1
\* whether or not earlier ones failed; the returned list holds exactly the
\* artifacts of the indices whose download succeeded, and the run ends on
\* the success path.
C7_FailedDownloadIsSkipped ==
    /\ pc = "download" => (Len(attempts) = i /\ i <= Len(urls))
    /\ (pc = "done" /\ urls # <<>>) =>
          /\ outcome = "success"
          /\ Len(attempts) = Len(urls)
          /\ \A k \in 1..Len(attempts) : attempts[k].idx = k - 1
          /\ downloaded_files = PathsWritten

C7_Witness ==
    /\ pc = "done"
    /\ Len(urls) = 2
    /\ attempts[1].res # "ok"
    /\ attempts[2].res = "ok"
    /\ Len(downloaded_files) = 1

\* the extension the code chose for result k (1-based)
ExtensionOf(k) ==
    IF kind = "image" THEN ImageExt(attempts[k].header, urls[k]) ELSE VideoExt(urls[k])

\* C8: when the Completed snapshot has n result URLs and every download
\* succeeds, the run returns n artifacts and the artifact of index i is
\* named {taskId}_{i}{extension}.
C8_ArtifactNames ==
    (/\ pc = "done"
     /\ outcome = "success"
     /\ \A k \in 1..Len(attempts) : attempts[k].res = "ok")
    => /\ Len(downloaded_files) = Len(urls)
       /\ \A k \in 1..Len(downloaded_files) :
             downloaded_files[k] = task_id \o <<"_">> \o Str(k - 1) \o ExtensionOf(k)

\* the parts of the submitted request with a given field name
PartsNamed(name) == SelectSeq(files, LAMBDA f : f.name = name)

\* C9: with local source images and a source-image URL both given, the
\* submitted request carries the local images as sourceImage parts and no
\* imageUrl field; imageUrl is submitted only when there is no local image.
C9_LocalImagesWinOverUrl ==
    n_submit > 0 =>
        /\ args.sources # <<>> =>
              /\ PartsNamed("sourceImage") =
                    [k \in 1..Len(args.sources) |->
                        [name |-> "sourceImage", value |-> basename(args.sources[k])]]
              /\ PartsNamed("imageUrl") = <<>>
        /\ PartsNamed("imageUrl") # <<>> =>
              /\ args.sources = <<>>
              /\ PartsNamed("imageUrl") = <<[name |-> "imageUrl", value |-> args.image_url]>>

C9_Witness ==
    /\ n_submit = 1
    /\ Len(args.sources) = 2
    /\ args.image_url # None

\* C10: the video client rejects a duration outside 5..10 (5..15 for
\* seedancev2) and more than 2 source images before Submit: such a run makes
\* no Submit, no status query and no download.
C10_InvalidVideoRequestIsRejected ==
    (/\ kind = "video"
     /\ \/ args.duration < 5
        \/ args.duration > (IF args.model = "seedancev2" THEN 15 ELSE 10)
        \/ Len(args.sources) > 2)
    => /\ n_submit = 0
       /\ n_query = 0
       /\ attempts = <<>>
       /\ pc # "main" => (pc = "exit" /\ outcome = "ValidationError")

C10_Witness ==
    /\ kind = "video"
    /\ pc = "exit"
    /\ outcome = "ValidationError"
    /\ args.model = "seedancev1profast"
    /\ args.duration = 11
    /\ Len(args.sources) <= 2

\* C11: every handle generate_image / generate_video opened for a local
\* source image is closed when the submission is over, whichever way it
\* ends: success, non-success response code, transport error of the HTTP
\* call, failure to open a later source image.
C11_HandlesClosedOnEveryExit ==
    pc \in {"wait", "loop", "query", "sleep", "download", "done", "exit"}
        => opened_files = <<>>

\* C12: whatever the declared content type and the URL, the extension used
\* for an artifact is non-empty and at most 6 characters long for an image,
\* at most 5 for a video, and two derivations from the same content type and
\* URL give the same extension.
C12_ExtensionIsTotalAndBounded ==
    \A n \in 1..Len(attempts) :
        /\ attempts[n].ext # <<>>
        /\ Len(attempts[n].ext) <= (IF kind = "image" THEN IMAGE_EXT_MAX ELSE VIDEO_EXT_MAX)
        /\ \A m \in 1..Len(attempts) :
              (attempts[m].header = attempts[n].header /\ urls[m] = urls[n])
                  => attempts[m].ext = attempts[n].ext

\* two artifacts with the same header and the same URL, whose URL suffix and
\* declared type both give an extension over the limit
C12_Witness ==
    /\ Len(attempts) = 2
    /\ urls[1] = urls[2]
    /\ attempts[1].header = attempts[2].header
    /\ Len(PathSuffix(UrlPath(urls[1]))) > IMAGE_EXT_MAX
    /\ Len(guess_extension(content_type(attempts[1].header))) > IMAGE_EXT_MAX


\* the extension the priority rule gives: that of the declared content type
\* if it has one, else that of the URL path; the format default when the
\* one chosen is empty or over the limit of the modality
ExtensionByPriority(k, header, url) ==
    LET byType == guess_extension(content_type(header))
        chosen == IF byType # <<>> THEN byType ELSE PathSuffix(UrlPath(url))
        limit  == IF k = "image" THEN IMAGE_EXT_MAX ELSE VIDEO_EXT_MAX
    IN  IF chosen = <<>> \/ Len(chosen) > limit
        THEN (IF k = "image" THEN PNG ELSE MP4)
        ELSE chosen

\* C13: for both modalities the extension of every artifact whose response
\* arrived is the one the priority rule gives: declared content type first,
\* URL path second, format default (.png / .mp4) for an empty or too long
\* extension.
C13_ExtensionByPriority ==
    \A n \in 1..Len(attempts) :
        attempts[n].res # "fetch_failed" =>
            attempts[n].ext = ExtensionByPriority(kind, attempts[n].header, urls[n])


\* the last status query reported Completed with no result URL (the "url"
\* key absent, or an empty list)
CompletedWithoutUrls ==
    /\ Reports(response, COMPLETED)
    /\ Get(response.data, "url", <<>>) = <<>>

\* C14: a Completed snapshot with an empty result URL sequence makes
\* wait_and_download return the empty list on the success path: no download
\* is attempted, nothing is written, the process does not exit with a failure.
C14_CompletedWithoutUrlsIsSuccess ==
    CompletedWithoutUrls =>
        /\ pc = "done"
        /\ outcome = "success"
        /\ downloaded_files = <<>>
        /\ attempts = <<>>
        /\ disk = {}

\* the empty Completed snapshot arrives after an earlier poll
C14_Witness ==
    /\ CompletedWithoutUrls
    /\ "url" \in response.data.keys
    /\ n_query > 1
    /\ pc = "done"


\* the ways a run ends with a non-zero exit status
FatalOutcomes ==
    {"ValidationError", "ConfigurationError", "Crash", "SubmissionError", "TaskFailed",
     "Timeout"}

\* C15: a run ends either by a process exit with non-zero status or by normal
\* completion reporting the local paths written, never both; a missing
\* credential, a failed submission, a Failed snapshot and an expired deadline
\* end it by the exit; a transient query failure is followed by an exit only
\* when the deadline has expired, and no exit follows a download attempt.
C15_ExitOrNormalCompletion ==
    /\ (pc = "exit") = (outcome \in FatalOutcomes)
    /\ (pc = "done") = (outcome = "success")
    /\ pc \notin {"exit", "done"} => outcome = "none"
    /\ pc = "done" => downloaded_files = PathsWritten
    /\ (pc \notin {"main", "generate"} /\ KeyMissing /\ ~Rejected(kind, args))
          => (pc = "exit" /\ outcome = "ConfigurationError")
    /\ (n_submit > 0 /\ (submit_response.raises # "no" \/ submit_response.code # SUCCESS))
          => (pc = "exit" /\ outcome = "SubmissionError")
    /\ Reports(response, FAILED) => (pc = "exit" /\ outcome = "TaskFailed")
    /\ outcome = "Timeout" => (clock - start_time >= args.timeout /\ ~terminal_seen)
    /\ (n_query > 0 /\ IsTransient(response) /\ pc = "exit") => outcome = "Timeout"
    /\ attempts # <<>> => pc \in {"download", "done"}

\* a run that polled more than once, had a download fail and another
\* succeed, and completed normally
C15_Witness ==
    /\ pc = "done"
    /\ outcome = "success"
    /\ n_sleep > 0
    /\ \E n \in 1..Len(attempts) : attempts[n].res # "ok"
    /\ downloaded_files # <<>>


\* the run is inside the polling loop of wait_and_download
InLoop == pc \in {"loop", "query", "sleep"}

\* the state in which main calls wait_and_download: the submission
\* succeeded and returned task_id
InitPoll ==
    /\ kind \in {"image", "video"}
    /\ args \in {a \in Runs(kind) : a.sources = <<>> /\ a.image_url = None
                                     /\ a.api_key # None /\ ~Rejected(kind, a)}
    /\ env_key = TRUE
    /\ pc = "wait"
    /\ clock = 0
    /\ start_time = 0
    /\ task_id \in TaskIds
    /\ task_data = NoneData
    /\ urls = <<>>
    /\ i = 0
    /\ downloaded_files = <<>>
    /\ opened_files = <<>>
    /\ disk = {}
    /\ outcome = "none"
    /\ error_msg = <<>>
    /\ files = BuildFiles(kind, args)
    /\ submit_response = [raises |-> "no", code |-> SUCCESS, hasId |-> TRUE, taskid |-> task_id]
    /\ response = NoResponse
    /\ query_start = 0
    /\ completed_at = <<>>
    /\ terminal_seen = FALSE
    /\ n_submit = 1
    /\ n_query = 0
    /\ n_sleep = 0
    /\ attempts = <<>>
    /\ queried = {}
    /\ last_heartbeat = 0
    /\ beats = <<>>

\* wait_and_download up to the end of its polling loop
NextPoll ==
    \/ StartWait
    \/ LoopCheck
    \/ Query
    \/ Sleep

\* the loop goes on: the status call returns or raises within its timeout
\* of 30 s, time.sleep returns after poll_interval, the loop test is a
\* computation
FairSpec ==
    /\ InitPoll
    /\ [][NextPoll]_vars
    /\ WF_vars(StartWait) /\ WF_vars(LoopCheck) /\ WF_vars(Query) /\ WF_vars(Sleep)

\* a step that leaves the polling loop is the handling of a Completed
\* snapshot, the handling of a Failed snapshot, or the loop test finding
\* elapsed >= timeout
LeavesLoopByTerminalOrDeadline ==
    (InLoop /\ ~InLoop') =>
        \/ pc = "query" /\ Reports(response', COMPLETED) /\ pc' \in {"download", "done"}
        \/ pc = "query" /\ Reports(response', FAILED) /\ pc' = "exit"
        \/ /\ pc = "loop"
           /\ clock - start_time >= args.timeout
           /\ pc' = "exit"
           /\ outcome' = "Timeout"

\* C16: with the clock advancing by poll_interval > 0 in every iteration that
\* sleeps, every execution of wait_and_download eventually leaves the polling
\* loop, and leaves it only by a Completed snapshot, a Failed snapshot or the
\* deadline test finding elapsed >= timeout.
C16_LoopIsLeftByTerminalOrDeadline ==
    /\ InLoop ~> ~InLoop
    /\ [][LeavesLoopByTerminalOrDeadline]_vars

\* the loop left by the deadline test after several iterations
C16_Witness ==
    /\ pc = "exit"
    /\ outcome = "Timeout"
    /\ n_query >= 2
    /\ n_sleep = n_query


\* the last status query reported a terminal snapshot
TerminalReported == Reports(response, COMPLETED) \/ Reports(response, FAILED)

\* C17: queries and sleeps alternate: when a query is about to be made every
\* earlier query has been followed by exactly one sleep; a sleep is pending
\* only after a query whose result was not terminal; after a terminal
\* snapshot no sleep takes place: the downloads start (or the run returns)
\* on Completed, the run exits on Failed.
C17_OneSleepBetweenQueries ==
    /\ pc \in {"loop", "query"} => n_sleep = n_query
    /\ pc = "sleep" => (n_sleep = n_query - 1 /\ ~TerminalReported)
    /\ TerminalReported => n_sleep = n_query - 1
    /\ Reports(response, COMPLETED) => pc \in {"download", "done"}
    /\ Reports(response, FAILED) => (pc = "exit" /\ outcome = "TaskFailed")
    /\ (pc = "exit" /\ outcome = "Timeout") => n_sleep = n_query

\* a Completed snapshot on the third query: two sleeps before it, none after
C17_Witness ==
    /\ Reports(response, COMPLETED)
    /\ n_query = 3
    /\ n_sleep = 2
    /\ pc = "download"


\* a step that attempts a download attempts the one of the next index, the
\* index after the last one attempted, and puts the path of a successful
\* one at the end of the returned list
DownloadsInIndexOrder ==
    attempts' # attempts =>
        LET n    == Len(attempts)
            last == attempts'[n + 1]
        IN  /\ Len(attempts') = n + 1
            /\ SubSeq(attempts', 1, n) = attempts
            /\ last.idx = n
            /\ n < Len(urls)
            /\ downloaded_files' =
                  IF last.res = "ok"
                  THEN downloaded_files \o
                          <<LocalPath(kind, task_id, n, last.header, urls[n + 1])>>
                  ELSE downloaded_files

\* C18: downloads are attempted one at a time in increasing index order
\* 0..n-1, each URL at most once, and the returned list holds the paths of
\* the successful ones in that order.
C18_ReturnedListInResultOrder == [][DownloadsInIndexOrder]_vars

\* two results downloaded to two different paths
C18_Witness ==
    /\ pc = "done"
    /\ Len(attempts) = 2
    /\ Len(downloaded_files) = 2
    /\ downloaded_files[1] # downloaded_files[2]


\* string p is a prefix of string q
IsPrefix(p, q) == Len(p) <= Len(q) /\ SubSeq(q, 1, Len(p)) = p

\* C19: when Submit reported success with a task identifier, the run holds
\* that identifier, every status query sends it, and the name of every
\* artifact file written starts with it, followed by "_" and a result index.
C19_TaskIdUsedUnchanged ==
    (n_submit > 0 /\ submit_response.raises = "no" /\ submit_response.code = SUCCESS
                  /\ submit_response.hasId) =>
        /\ pc # "exit" \/ outcome # "SubmissionError"
        /\ task_id = submit_response.taskid
        /\ queried \subseteq {submit_response.taskid}
        /\ n_query > 0 => queried = {submit_response.taskid}
        /\ \A f \in disk :
              \E n \in 0..(Len(urls) - 1) :
                  IsPrefix(submit_response.taskid \o <<"_">> \o Str(n), f.path)


\* C20: within one run the artifacts of two distinct result indices whose
\* downloads succeeded are at distinct local paths, so none overwrites
\* another.
C20_DistinctIndicesDistinctPaths ==
    \A m, n \in 1..Len(attempts) :
        (m # n /\ attempts[m].res = "ok" /\ attempts[n].res = "ok") =>
            LocalPath(kind, task_id, attempts[m].idx, attempts[m].header, urls[m])
                # LocalPath(kind, task_id, attempts[n].idx, attempts[n].header, urls[n])


\* the order of the collaborator calls, step by step: Submit is called
\* before any other call and once; a status query is made after the Submit
\* that succeeded and before any Completed or Failed snapshot; a download is
\* attempted after a Completed snapshot and no query is made in that step
CallsInOrder ==
    /\ n_submit' # n_submit =>
          (n_submit = 0 /\ n_submit' = 1 /\ n_query = 0 /\ attempts = <<>>)
    /\ n_query' # n_query =>
          /\ n_query' = n_query + 1
          /\ n_submit = 1
          /\ submit_response.raises = "no" /\ submit_response.code = SUCCESS
          /\ ~terminal_seen
          /\ attempts = <<>>
    /\ attempts' # attempts =>
          /\ completed_at # <<>>
          /\ Reports(response, COMPLETED)
          /\ n_query' = n_query
          /\ n_submit' = n_submit

\* C21: the collaborator calls of a run are ordered: every status query
\* comes after the single successful Submit, every download after the first
\* Completed snapshot, and no status query after the first Completed or
\* Failed snapshot.
C21_CollaboratorCallsAreOrdered == [][CallsInOrder]_vars

\* a run with several queries and a download, at its end
C21_Witness ==
    /\ pc = "done"
    /\ n_submit = 1
    /\ n_query >= 2
    /\ Len(attempts) = 2


\* the submission succeeded: wait_and_download is or was running
Polling == n_submit = 1 /\ submit_response.raises = "no" /\ submit_response.code = SUCCESS

\* C22: a status query is started only at an elapsed time strictly below the
\* timeout; with a timeout <= 0 no status query is made at all and the run
\* ends with the timeout outcome.
C22_QueryOnlyBeforeDeadline ==
    /\ pc = "query" => clock - start_time < args.timeout
    /\ n_query > 0 => query_start < args.timeout
    /\ args.timeout <= 0 =>
          /\ n_query = 0
          /\ pc \notin {"query", "sleep", "download", "done"}
          /\ (Polling /\ pc = "exit") => outcome = "Timeout"

\* a run with timeout <= 0 that got past the submission, at its end
C22_Witness ==
    /\ args.timeout <= 0
    /\ Polling
    /\ pc = "exit"
    /\ outcome = "Timeout"
    /\ n_query = 0


\* C23: when a run ends on the success path, the artifact files in the
\* output directory are exactly the returned paths, each written completely;
\* a failed download, also one that failed part-way, left no file.
C23_FilesOnDiskAreTheReturnedOnes ==
    (pc = "done" /\ outcome = "success") =>
        /\ {f.path : f \in disk} = {downloaded_files[k] : k \in 1..Len(downloaded_files)}
        /\ \A f \in disk : f.state = "complete"


----------------------------------------------------------------------------
(* The polling loop of the video client over run times that reach the
   heartbeat period *)

\* --poll-interval and --timeout of the runs: polls 30 s apart, and 59 s
\* apart so that a snapshot falls on either side of the 60 s mark
BeatIntervals == {30, 59}
BeatTimeouts == {100, 130}

\* the state in which main (video) calls wait_and_download
InitBeat ==
    /\ kind = "video"
    /\ args \in {[a EXCEPT !.poll_interval = p, !.timeout = t] :
                    a \in {b \in Runs("video") : PollingOf(b) = <<1, 1>> /\ b.sources = <<>>
                                                  /\ b.image_url = None /\ b.api_key # None
                                                  /\ ~Rejected("video", b)},
                    p \in BeatIntervals, t \in BeatTimeouts}
    /\ env_key = TRUE
    /\ pc = "wait"
    /\ clock = 0
    /\ start_time = 0
    /\ task_id \in TaskIds
    /\ task_data = NoneData
    /\ urls = <<>>
    /\ i = 0
    /\ downloaded_files = <<>>
    /\ opened_files = <<>>
    /\ disk = {}
    /\ outcome = "none"
    /\ error_msg = <<>>
    /\ files = BuildFiles(kind, args)
    /\ submit_response = [raises |-> "no", code |-> SUCCESS, hasId |-> TRUE, taskid |-> task_id]
    /\ response = NoResponse
    /\ query_start = 0
    /\ completed_at = <<>>
    /\ terminal_seen = FALSE
    /\ n_submit = 1
    /\ n_query = 0
    /\ n_sleep = 0
    /\ attempts = <<>>
    /\ queried = {}
    /\ last_heartbeat = 0
    /\ beats = <<>>

SpecBeat == InitBeat /\ [][NextPoll]_vars

\* every heartbeat logged so far was logged on a Processing snapshot, at
\* least 60 s of elapsed time after the previous one (after 0 for the
\* first), and last_heartbeat is the elapsed time of the latest one
HeartbeatsSpaced ==
    /\ \A n \in 1..Len(beats) :
          /\ beats[n].status = PROCESSING
          /\ beats[n].at - beats[n].prev >= HEARTBEAT_PERIOD
          /\ beats[n].prev = IF n = 1 THEN 0 ELSE beats[n - 1].at
    /\ last_heartbeat = IF beats = <<>> THEN 0 ELSE beats[Len(beats)].at

\* C24: in the video polling loop the heartbeat message is logged only on a
\* snapshot with status Processing (2) and only when at least 60 s of
\* elapsed time have passed since the previous heartbeat; last_heartbeat
\* never decreases and is the elapsed time of the latest heartbeat (0 before
\* the first).
C24_HeartbeatEvery60sOnProcessing ==
    /\ []HeartbeatsSpaced
    /\ [][last_heartbeat' >= last_heartbeat]_vars

\* two heartbeats in a run, the first at exactly 60 s, after an earlier poll
C24_Witness ==
    /\ Len(beats) = 2
    /\ n_query > 2
    /\ beats[1].at = HEARTBEAT_PERIOD

====
